---- MODULE Spec2Model ----
(***************************************************************************)
(* Model of the todo chat agent: the function-calling loop of              *)
(* backend/agents/todo_agent.py (run_todo_agent), the tool registry        *)
(* (backend/mcp/registry.py), the five task tools (backend/mcp/tools.py)   *)
(* and the task store they act on (table todos, backend/models.py).        *)
(*                                                                         *)
(* The language model is the environment: it answers every submission      *)
(* either with a response (a sequence of parts, each a text part or a      *)
(* function_call part) or with a transport error.                          *)
(***************************************************************************)
EXTENDS Integers, Sequences, FiniteSets, TLC

(***************************************************************************)
(* Bounds of the exploration.                                              *)
(***************************************************************************)
\* ids the task store hands out: 1..MaxTasks
MaxTasks == 1
\* function_call parts the model issues during one turn
MaxCalls == 2
\* parts in one model response
MaxParts == 2

\* max_rounds of the design: the most tool-exchange rounds a turn may run.
\* Its value is left open; the smallest is taken here.
max_rounds == 1

Users == {"u1", "u2"}
Titles == {"t1", "t2"}
Texts == {"a", "b"}
ModelErrors == {"503 unavailable"}
Messages == {"hello"}

\* Python's None, for Optional[str] columns and the not-yet-returned result
None == "<None>"

(***************************************************************************)
(* Values                                                                  *)
(***************************************************************************)
\* A tool result is a Python dict or a Python list (list_tasks).
Dict(r) == [type |-> "dict", value |-> r]
List(s) == [type |-> "list", value |-> s]

\* dict(part.function_call.args) of a call without arguments
NoArgs == <<>>

\* genai.protos.Part: an unset function_call is the empty message, which is
\* falsy; an unset text is "".
NoCall == [name |-> "", args |-> NoArgs]
TextPart(s) == [text |-> s, function_call |-> NoCall]
CallPart(n, a) == [text |-> "", function_call |-> [name |-> n, args |-> a]]
IsCall(part) == part.function_call.name # ""

(***************************************************************************)
(* Tool registry (mcp/registry.py)                                         *)
(***************************************************************************)
\* TOOLS_METADATA: the advertised declarations, in order
TOOLS_METADATA ==
    << [name |-> "add_task", properties |-> {"title", "description"},
        required |-> {"title"}],
       [name |-> "list_tasks", properties |-> {"status"}, required |-> {}],
       [name |-> "complete_task", properties |-> {"task_id"},
        required |-> {"task_id"}],
       [name |-> "delete_task", properties |-> {"task_id"},
        required |-> {"task_id"}],
       [name |-> "update_task", properties |-> {"task_id", "title", "description"},
        required |-> {"task_id"}] >>

\* update_task is advertised but has no entry in the map
TOOL_FUNCTIONS_WithoutUpdate ==
    {"add_task", "list_tasks", "complete_task", "delete_task"}

\* TOOL_FUNCTIONS: the names that resolve to an implementation
TOOL_FUNCTIONS ==
    {"add_task", "list_tasks", "complete_task", "delete_task", "update_task"}

\* Python signatures of the implementations: all parameters, and the ones
\* without a default value.
Parameters(name) ==
    CASE name = "add_task" -> {"user_id", "title", "description"}
      [] name = "list_tasks" -> {"user_id", "status"}
      [] name = "complete_task" -> {"user_id", "task_id"}
      [] name = "delete_task" -> {"user_id", "task_id"}
      [] name = "update_task" -> {"user_id", "task_id", "title", "description"}
      [] OTHER -> {}

RequiredParameters(name) ==
    CASE name = "add_task" -> {"user_id", "title"}
      [] name = "list_tasks" -> {"user_id"}
      [] name = "complete_task" -> {"user_id", "task_id"}
      [] name = "delete_task" -> {"user_id", "task_id"}
      [] name = "update_task" -> {"user_id", "task_id"}
      [] OTHER -> {}

(***************************************************************************)
(* Task tools (mcp/tools.py).  Each yields the returned value and the      *)
(* task store after its commit.  The database does not fail here, so the   *)
(* tools' own except branches are not taken.                               *)
(***************************************************************************)
Outcome(result, store, nid) == [result |-> result, todos |-> store, next_id |-> nid]

\* kwargs.get(k, default)
Arg(args, k, default) == IF k \in DOMAIN args THEN args[k] ELSE default

NotFoundFor(task_id) ==
    Dict([error |-> "Task with ID " \o ToString(task_id) \o " not found for this user"])

\* select(Todo).where(Todo.id == task_id): the owner is not checked
Owned_AnyOwner(store, user_id, task_id) ==
    {t \in store : t.id = task_id}

\* select(Todo).where(Todo.id == task_id, Todo.user_id == user_id)
Owned(store, user_id, task_id) ==
    {t \in store : t.id = task_id /\ t.user_id = user_id}

\* the new row is marked done
add_task_completed(store, nid, user_id, title, description) ==
    LET todo == [id |-> nid, user_id |-> user_id, title |-> title,
                 description |-> description, completed |-> TRUE]
    IN Outcome(Dict([task_id |-> nid, status |-> "created", title |-> title]),
               store \cup {todo}, nid + 1)

add_task(store, nid, user_id, title, description) ==
    LET todo == [id |-> nid, user_id |-> user_id, title |-> title,
                 description |-> description, completed |-> FALSE]
    IN Outcome(Dict([task_id |-> nid, status |-> "created", title |-> title]),
               store \cup {todo}, nid + 1)

\* rows in primary-key order
RECURSIVE Rows(_)
Rows(S) ==
    IF S = {} THEN <<>>
    ELSE LET t == CHOOSE x \in S : \A y \in S : x.id <= y.id
         IN <<[id |-> t.id, title |-> t.title, completed |-> t.completed]>>
            \o Rows(S \ {t})

list_tasks(store, nid, user_id, status) ==
    LET mine == {t \in store : t.user_id = user_id}
        rows == IF status = "pending" THEN {t \in mine : ~t.completed}
                ELSE IF status = "completed" THEN {t \in mine : t.completed}
                ELSE mine
    IN Outcome(List(Rows(rows)), store, nid)

\* completed is flipped, as the PATCH route does
complete_task_toggles(store, nid, user_id, task_id) ==
    LET found == Owned(store, user_id, task_id)
    IN IF found = {} THEN Outcome(NotFoundFor(task_id), store, nid)
       ELSE LET todo == CHOOSE t \in found : TRUE
            IN Outcome(Dict([task_id |-> todo.id, status |-> "completed",
                             title |-> todo.title]),
                       (store \ {todo}) \cup {[todo EXCEPT !.completed = ~@]},
                       nid)

complete_task(store, nid, user_id, task_id) ==
    LET found == Owned(store, user_id, task_id)
    IN IF found = {} THEN Outcome(NotFoundFor(task_id), store, nid)
       ELSE LET todo == CHOOSE t \in found : TRUE
            IN Outcome(Dict([task_id |-> todo.id, status |-> "completed",
                             title |-> todo.title]),
                       (store \ {todo}) \cup {[todo EXCEPT !.completed = TRUE]},
                       nid)

delete_task(store, nid, user_id, task_id) ==
    LET found == Owned(store, user_id, task_id)
    IN IF found = {} THEN Outcome(NotFoundFor(task_id), store, nid)
       ELSE LET todo == CHOOSE t \in found : TRUE
            IN Outcome(Dict([task_id |-> task_id, status |-> "deleted",
                             title |-> todo.title]),
                       store \ {todo}, nid)

update_task(store, nid, user_id, task_id, title, description) ==
    LET found == Owned(store, user_id, task_id)
    IN IF found = {} THEN Outcome(NotFoundFor(task_id), store, nid)
       ELSE LET todo == CHOOSE t \in found : TRUE
                upd == [todo EXCEPT
                          !.title = IF title # None THEN title ELSE @,
                          !.description = IF description # None THEN description ELSE @]
            IN Outcome(Dict([task_id |-> upd.id, status |-> "updated",
                             title |-> upd.title]),
                       (store \ {todo}) \cup {upd}, nid)

(***************************************************************************)
(* Tool executor: the body of the `if part.function_call` branch of        *)
(* run_todo_agent                                                          *)
(***************************************************************************)
\* {"user_id": user_id, **func_args}: the model's value of user_id wins
ActualArgs_ModelWins(func_args, uid) ==
    [k \in DOMAIN func_args \cup {"user_id"} |->
        IF k \in DOMAIN func_args THEN func_args[k] ELSE uid]

\* {**func_args, "user_id": user_id}
ActualArgs(func_args, uid) ==
    [k \in DOMAIN func_args \cup {"user_id"} |->
        IF k = "user_id" THEN uid ELSE func_args[k]]

\* TOOL_FUNCTIONS[func_name](**actual_args): Python binds the keyword
\* arguments to the signature (TypeError on an unexpected or a missing one),
\* then runs the body.
Invoke(name, kwargs, store, nid) ==
    LET unexpected == DOMAIN kwargs \ Parameters(name)
        missing == RequiredParameters(name) \ DOMAIN kwargs
        Raise(msg) == [raised |-> TRUE, exc |-> msg] @@ Outcome(Dict(<<>>), store, nid)
        Return(o) == [raised |-> FALSE, exc |-> ""] @@ o
    IN IF unexpected # {}
         THEN Raise(name \o "() got an unexpected keyword argument '"
                    \o (CHOOSE k \in unexpected : TRUE) \o "'")
       ELSE IF missing # {}
         THEN Raise(name \o "() missing 1 required positional argument: '"
                    \o (CHOOSE k \in missing : TRUE) \o "'")
       ELSE CASE name = "add_task" ->
                   Return(add_task(store, nid, kwargs.user_id, kwargs.title,
                                   Arg(kwargs, "description", None)))
              [] name = "list_tasks" ->
                   Return(list_tasks(store, nid, kwargs.user_id,
                                     Arg(kwargs, "status", "all")))
              [] name = "complete_task" ->
                   Return(complete_task(store, nid, kwargs.user_id, kwargs.task_id))
              [] name = "delete_task" ->
                   Return(delete_task(store, nid, kwargs.user_id, kwargs.task_id))
              [] name = "update_task" ->
                   Return(update_task(store, nid, kwargs.user_id, kwargs.task_id,
                                      Arg(kwargs, "title", None),
                                      Arg(kwargs, "description", None)))

\* a call that raised is made once more before its failure is recorded
Execute_Retries(func_name, func_args, uid, store, nid) ==
    IF func_name \in TOOL_FUNCTIONS
      THEN LET actual_args == ActualArgs(func_args, uid)
               call == Invoke(func_name, actual_args, store, nid)
               made == <<[name |-> func_name, args |-> actual_args,
                          raised |-> call.raised]>>
           IN IF call.raised
                THEN [result |-> Dict([error |-> call.exc]), todos |-> store,
                      next_id |-> nid, invoked |-> made \o made]
                ELSE [result |-> call.result, todos |-> call.todos,
                      next_id |-> call.next_id, invoked |-> made]
      ELSE [result |-> Dict([error |-> "Tool " \o func_name \o " is not registered."]),
            todos |-> store, next_id |-> nid, invoked |-> <<>>]

\* no `in TOOL_FUNCTIONS` test: the lookup raises KeyError inside the try
Execute_NoRegistryTest(func_name, func_args, uid, store, nid) ==
    IF func_name \in TOOL_FUNCTIONS
      THEN LET actual_args == ActualArgs(func_args, uid)
               call == Invoke(func_name, actual_args, store, nid)
               made == <<[name |-> func_name, args |-> actual_args,
                          raised |-> call.raised]>>
           IN IF call.raised
                THEN [result |-> Dict([error |-> call.exc]), todos |-> store,
                      next_id |-> nid, invoked |-> made]
                ELSE [result |-> call.result, todos |-> call.todos,
                      next_id |-> call.next_id, invoked |-> made]
      ELSE [result |-> Dict([error |-> "'" \o func_name \o "'"]),
            todos |-> store, next_id |-> nid, invoked |-> <<>>]

\* the except branch records a fixed text instead of str(e)
Execute_DropsMessage(func_name, func_args, uid, store, nid) ==
    IF func_name \in TOOL_FUNCTIONS
      THEN LET actual_args == ActualArgs(func_args, uid)
               call == Invoke(func_name, actual_args, store, nid)
               made == <<[name |-> func_name, args |-> actual_args,
                          raised |-> call.raised]>>
           IN IF call.raised
                THEN [result |-> Dict([error |-> "Tool execution failed"]),
                      todos |-> store, next_id |-> nid, invoked |-> made]
                ELSE [result |-> call.result, todos |-> call.todos,
                      next_id |-> call.next_id, invoked |-> made]
      ELSE [result |-> Dict([error |-> "Tool " \o func_name \o " is not registered."]),
            todos |-> store, next_id |-> nid, invoked |-> <<>>]

\* What one function_call part does: the result recorded for it, the task
\* store afterwards, and the invocations of implementations it made.
Execute(func_name, func_args, uid, store, nid) ==
    IF func_name \in TOOL_FUNCTIONS
      THEN LET actual_args == ActualArgs(func_args, uid)
               call == Invoke(func_name, actual_args, store, nid)
               made == <<[name |-> func_name, args |-> actual_args,
                          raised |-> call.raised]>>
           IN IF call.raised
                THEN [result |-> Dict([error |-> call.exc]), todos |-> store,
                      next_id |-> nid, invoked |-> made]
                ELSE [result |-> call.result, todos |-> call.todos,
                      next_id |-> call.next_id, invoked |-> made]
      ELSE [result |-> Dict([error |-> "Tool " \o func_name \o " is not registered."]),
            todos |-> store, next_id |-> nid, invoked |-> <<>>]

\* final_text: the text parts of the last response, concatenated
RECURSIVE FinalText(_)
FinalText(parts) ==
    IF parts = <<>> THEN ""
    ELSE (IF Head(parts).text # "" THEN Head(parts).text ELSE "")
         \o FinalText(Tail(parts))

FALLBACK == "I've updated your tasks. Is there anything else you'd like to do?"

(***************************************************************************)
(* What the model may answer                                               *)
(***************************************************************************)
TaskIds == 1..MaxTasks

\* values the model may put under the key user_id of its arguments
SuppliedUserIds == {"u2"}

FunctionCalls ==
    {CallPart("add_task", [title |-> "t1"]),
     CallPart("add_task", NoArgs),
     CallPart("list_tasks", NoArgs),
     CallPart("list_tasks", [status |-> "pending"]),
     CallPart("list_tasks", [status |-> "completed"]),
     CallPart("remind_me", NoArgs)}
    \cup {CallPart("add_task", [title |-> "t2", description |-> "d", user_id |-> u]) :
            u \in SuppliedUserIds}
    \cup {CallPart("list_tasks", [user_id |-> u]) : u \in SuppliedUserIds}
    \cup {CallPart("complete_task", [task_id |-> i]) : i \in TaskIds}
    \cup {CallPart("complete_task", [task_id |-> i, user_id |-> u]) :
            i \in TaskIds, u \in SuppliedUserIds}
    \cup {CallPart("delete_task", [task_id |-> i]) : i \in TaskIds}
    \cup {CallPart("delete_task", [task_id |-> i, user_id |-> u]) :
            i \in TaskIds, u \in SuppliedUserIds}
    \cup {CallPart("update_task", [task_id |-> i, title |-> "t2"]) : i \in TaskIds}
    \cup {CallPart("update_task", [task_id |-> i, description |-> "d", user_id |-> u]) :
            i \in TaskIds, u \in SuppliedUserIds}

\* a text part, or a part with neither text nor function_call
TextParts == {TextPart(s) : s \in Texts \cup {""}}

Parts == TextParts \cup FunctionCalls

Responses == UNION {[1..n -> Parts] : n \in 0..MaxParts}

\* the function_call parts of a response, in order
RECURSIVE Calls(_)
Calls(parts) ==
    IF parts = <<>> THEN <<>>
    ELSE (IF IsCall(Head(parts)) THEN <<Head(parts).function_call>> ELSE <<>>)
         \o Calls(Tail(parts))

NumCalls(parts) == Len(Calls(parts))
\* the add_task requests of a response that insert a row
NumAdds(parts) ==
    Cardinality({i \in DOMAIN parts :
                   /\ parts[i].function_call.name = "add_task"
                   /\ "title" \in DOMAIN parts[i].function_call.args})

(***************************************************************************)
(* State                                                                   *)
(***************************************************************************)
VARIABLES
    todos,                \* table todos: the rows
    next_id,              \* the id the next inserted row gets
    pc,                   \* where run_todo_agent is: idle, awaiting_model,
                          \* inspecting (the for loop over response.parts), returned
    user_id,              \* run_todo_agent's user_id
    history,              \* run_todo_agent's history, the seed of the chat session
    response,             \* the model response being inspected
    idx,                  \* position of the for loop in response.parts
    has_tool_call,
    parts_for_next_turn,
    tool_calls_info,
    returned,             \* the dict run_todo_agent returned
    return_site,          \* which return statement produced it
    submissions,          \* what this turn sent to the model, in order
    requests,             \* the function calls the model requested this turn,
                          \* one sequence per response that carried any
    invocations,          \* the calls of tool implementations this turn made
    conversations,        \* table conversations: the rows
    messages,             \* table messages: the rows
    next_conversation_id, \* the id the next inserted conversation gets
    next_message_id,      \* the id the next inserted message gets
    clock,                \* the time, in ticks; every reading takes one
    chat_pc,              \* where send_chat_message is: idle, have_conversation,
                          \* awaiting_agent
    request,              \* the request send_chat_message is serving
    conversation,         \* the id of its conversation
    gemini_history,       \* the history it built for the agent
    http,                 \* the last answer any /api/chat endpoint gave
    other                 \* a second server process on the same database: where
                          \* its send_chat_message is, with its locals and answer

vars == <<todos, next_id, pc, user_id, history, response, idx, has_tool_call,
          parts_for_next_turn, tool_calls_info, returned, return_site,
          submissions, requests, invocations, conversations, messages,
          next_conversation_id, next_message_id, clock, chat_pc, request,
          conversation, gemini_history, http, other>>

store_vars == <<todos, next_id>>
loop_vars == <<response, idx, has_tool_call, parts_for_next_turn>>
log_vars == <<submissions, requests, invocations>>
table_vars == <<conversations, messages, next_conversation_id, next_message_id>>
handler_vars == <<chat_pc, request, conversation, gemini_history>>
chat_vars == <<table_vars, clock, handler_vars, http, other>>

NoRequest == [user |-> None, message |-> "", conversation_id |-> 0]
\* no endpoint has answered the request being served
NoAnswer == [endpoint |-> None, user |-> None, conversation_id |-> 0,
             status |-> 0, body |-> <<>>]

NotReturned == [response |-> None, tool_calls |-> <<>>]

\* the second process serves no request
NoOther == [chat_pc |-> "idle", request |-> NoRequest, conversation |-> 0,
            gemini_history |-> <<>>, http |-> NoAnswer]

Init ==
    /\ todos = {}
    /\ next_id = 1
    /\ pc = "idle"
    /\ user_id = None
    /\ history = <<>>
    /\ response = <<>>
    /\ idx = 1
    /\ has_tool_call = FALSE
    /\ parts_for_next_turn = <<>>
    /\ tool_calls_info = <<>>
    /\ returned = NotReturned
    /\ return_site = None
    /\ submissions = <<>>
    /\ requests = <<>>
    /\ invocations = <<>>
    /\ conversations = {}
    /\ messages = {}
    /\ next_conversation_id = 1
    /\ next_message_id = 1
    /\ clock = 1
    /\ chat_pc = "idle"
    /\ request = NoRequest
    /\ conversation = 0
    /\ gemini_history = <<>>
    /\ http = NoAnswer
    /\ other = NoOther

(***************************************************************************)
(* POST /api/tasks: how rows get into the table outside the agent.         *)
(* Requests are taken between turns.                                       *)
(***************************************************************************)
create_task(u, title) ==
    /\ pc = "idle"
    /\ next_id <= MaxTasks
    /\ todos' = todos \cup {[id |-> next_id, user_id |-> u, title |-> title,
                             description |-> None, completed |-> FALSE]}
    /\ next_id' = next_id + 1
    /\ UNCHANGED <<pc, user_id, history, loop_vars, tool_calls_info, returned, return_site,
                   log_vars>>

(***************************************************************************)
(* run_todo_agent                                                          *)
(***************************************************************************)
\* the call, up to chat.send_message(message) being issued
run_todo_agent(u, message, h) ==
    /\ pc = "idle"
    /\ pc' = "awaiting_model"
    /\ user_id' = u
    /\ history' = h
    /\ submissions' = <<[message |-> message, parts |-> <<>>]>>
    /\ UNCHANGED <<store_vars, loop_vars, tool_calls_info, returned, return_site,
                   requests, invocations>>

\* parts_for_next_turn = [] is missing from the loop body: the results of
\* earlier rounds stay in the list
send_message_returns_keeps_parts(parts) ==
    /\ pc = "awaiting_model"
    /\ Len(tool_calls_info) + NumCalls(parts) <= MaxCalls
    /\ NumAdds(parts) > 0 => (next_id - 1) + NumAdds(parts) <= MaxTasks
    /\ response' = parts
    /\ requests' = IF NumCalls(parts) > 0 THEN Append(requests, Calls(parts))
                   ELSE requests
    /\ has_tool_call' = FALSE
    /\ idx' = 1
    /\ pc' = "inspecting"
    /\ UNCHANGED <<store_vars, user_id, history, parts_for_next_turn, tool_calls_info, returned,
                   return_site, submissions, invocations>>

\* chat.send_message returns a response: the while loop body starts
send_message_returns(parts) ==
    /\ pc = "awaiting_model"
    /\ Len(tool_calls_info) + NumCalls(parts) <= MaxCalls
    /\ NumAdds(parts) > 0 => (next_id - 1) + NumAdds(parts) <= MaxTasks
    /\ response' = parts
    /\ requests' = IF NumCalls(parts) > 0 THEN Append(requests, Calls(parts))
                   ELSE requests
    /\ has_tool_call' = FALSE
    /\ parts_for_next_turn' = <<>>
    /\ idx' = 1
    /\ pc' = "inspecting"
    /\ UNCHANGED <<store_vars, user_id, history, tool_calls_info, returned, return_site,
                   submissions, invocations>>

\* both except branches return "tool_calls": []
send_message_raises_drops_trail(e) ==
    /\ pc = "awaiting_model"
    /\ returned' =
         [response |->
            (IF Len(submissions) = 1
               THEN "I'm sorry, I encountered an error communicating with the AI: "
               ELSE "I'm sorry, I encountered an error processing the task action: ")
            \o e,
          tool_calls |-> <<>>]
    /\ return_site' = IF Len(submissions) = 1 THEN "initial send failed"
                      ELSE "follow-up send failed"
    /\ pc' = "returned"
    /\ UNCHANGED <<store_vars, user_id, history, loop_vars, tool_calls_info, log_vars>>

\* the rows the turn inserted are taken back when a send fails
send_message_raises_rolls_back(e) ==
    /\ pc = "awaiting_model"
    /\ IF Len(submissions) = 1
         THEN /\ returned' =
                   [response |->
                      "I'm sorry, I encountered an error communicating with the AI: " \o e,
                    tool_calls |-> <<>>]
              /\ return_site' = "initial send failed"
         ELSE /\ returned' =
                   [response |->
                      "I'm sorry, I encountered an error processing the task action: " \o e,
                    tool_calls |-> tool_calls_info]
              /\ return_site' = "follow-up send failed"
    /\ pc' = "returned"
    /\ todos' = {t \in todos :
                   \A i \in DOMAIN tool_calls_info :
                      LET r == tool_calls_info[i].result
                      IN ~(/\ r.type = "dict"
                           /\ "status" \in DOMAIN r.value
                           /\ r.value.status = "created"
                           /\ r.value.task_id = t.id)}
    /\ UNCHANGED <<next_id, user_id, history, loop_vars, tool_calls_info, log_vars>>

\* chat.send_message raises: the except branch of the send that failed
send_message_raises(e) ==
    /\ pc = "awaiting_model"
    /\ IF Len(submissions) = 1
         THEN /\ returned' =
                   [response |->
                      "I'm sorry, I encountered an error communicating with the AI: " \o e,
                    tool_calls |-> <<>>]
              /\ return_site' = "initial send failed"
         ELSE /\ returned' =
                   [response |->
                      "I'm sorry, I encountered an error processing the task action: " \o e,
                    tool_calls |-> tool_calls_info]
              /\ return_site' = "follow-up send failed"
    /\ pc' = "returned"
    /\ UNCHANGED <<store_vars, user_id, history, loop_vars, tool_calls_info, log_vars>>

\* the reply part is put in front of the round's list
for_part_prepends ==
    /\ pc = "inspecting"
    /\ idx <= Len(response)
    /\ LET part == response[idx]
       IN IF IsCall(part)
            THEN LET func_name == part.function_call.name
                     func_args == part.function_call.args
                     done == Execute(func_name, func_args, user_id, todos, next_id)
                 IN /\ has_tool_call' = TRUE
                    /\ todos' = done.todos
                    /\ next_id' = done.next_id
                    /\ invocations' = invocations \o done.invoked
                    /\ tool_calls_info' =
                         Append(tool_calls_info,
                                [tool |-> func_name, arguments |-> func_args,
                                 result |-> done.result])
                    /\ parts_for_next_turn' =
                         <<[name |-> func_name, response |-> done.result]>>
                         \o parts_for_next_turn
            ELSE UNCHANGED <<has_tool_call, store_vars, invocations, tool_calls_info,
                             parts_for_next_turn>>
    /\ idx' = idx + 1
    /\ UNCHANGED <<pc, user_id, history, response, returned, return_site, submissions, requests>>

\* one iteration of `for part in response.parts`
for_part ==
    /\ pc = "inspecting"
    /\ idx <= Len(response)
    /\ LET part == response[idx]
       IN IF IsCall(part)
            THEN LET func_name == part.function_call.name
                     func_args == part.function_call.args
                     done == Execute(func_name, func_args, user_id, todos, next_id)
                 IN /\ has_tool_call' = TRUE
                    /\ todos' = done.todos
                    /\ next_id' = done.next_id
                    /\ invocations' = invocations \o done.invoked
                    /\ tool_calls_info' =
                         Append(tool_calls_info,
                                [tool |-> func_name, arguments |-> func_args,
                                 result |-> done.result])
                    /\ parts_for_next_turn' =
                         Append(parts_for_next_turn,
                                [name |-> func_name, response |-> done.result])
            ELSE UNCHANGED <<has_tool_call, store_vars, invocations, tool_calls_info,
                             parts_for_next_turn>>
    /\ idx' = idx + 1
    /\ UNCHANGED <<pc, user_id, history, response, returned, return_site, submissions, requests>>

\* the stock sentence stands in for every empty text, tool call or not
return_final_text_always_fallback ==
    /\ pc = "inspecting"
    /\ idx > Len(response)
    /\ ~has_tool_call
    /\ LET final_text == FinalText(response)
       IN returned' =
            [response |-> IF final_text = "" THEN FALLBACK ELSE final_text,
             tool_calls |-> tool_calls_info]
    /\ return_site' = "final text"
    /\ pc' = "returned"
    /\ UNCHANGED <<store_vars, user_id, history, loop_vars, tool_calls_info, log_vars>>

\* `if not has_tool_call: break`, the final text and the return
return_final_text ==
    /\ pc = "inspecting"
    /\ idx > Len(response)
    /\ ~has_tool_call
    /\ LET final_text == FinalText(response)
       IN returned' =
            [response |-> IF final_text = "" /\ tool_calls_info # <<>>
                            THEN FALLBACK ELSE final_text,
             tool_calls |-> tool_calls_info]
    /\ return_site' = "final text"
    /\ pc' = "returned"
    /\ UNCHANGED <<store_vars, user_id, history, loop_vars, tool_calls_info, log_vars>>

\* the results are sent although the response carried no function_call
send_tool_results_unconditional ==
    /\ pc = "inspecting"
    /\ idx > Len(response)
    /\ submissions' = Append(submissions, [message |-> "", parts |-> parts_for_next_turn])
    /\ response' = <<>>
    /\ idx' = 1
    /\ pc' = "awaiting_model"
    /\ UNCHANGED <<store_vars, user_id, history, has_tool_call, parts_for_next_turn,
                   tool_calls_info, returned, return_site, requests, invocations>>

\* chat.send_message(parts_for_next_turn) being issued.  `response` is
\* assigned by this statement and not read again before, so it is cleared
\* here, with the loop position that belonged to it.
send_tool_results ==
    /\ pc = "inspecting"
    /\ idx > Len(response)
    /\ has_tool_call
    /\ submissions' = Append(submissions, [message |-> "", parts |-> parts_for_next_turn])
    /\ response' = <<>>
    /\ idx' = 1
    /\ pc' = "awaiting_model"
    /\ UNCHANGED <<store_vars, user_id, history, has_tool_call, parts_for_next_turn,
                   tool_calls_info, returned, return_site, requests, invocations>>

\* the audit trail is kept by the module and not made anew by a call
turn_over_keeps_trail ==
    /\ pc = "returned"
    /\ pc' = "idle"
    /\ user_id' = None
    /\ history' = <<>>
    /\ response' = <<>>
    /\ idx' = 1
    /\ has_tool_call' = FALSE
    /\ parts_for_next_turn' = <<>>
    /\ tool_calls_info' = tool_calls_info
    /\ returned' = NotReturned
    /\ return_site' = None
    /\ submissions' = <<>>
    /\ requests' = <<>>
    /\ invocations' = <<>>
    /\ UNCHANGED store_vars

\* the caller has the result; nothing of the turn is kept
turn_over ==
    /\ pc = "returned"
    /\ pc' = "idle"
    /\ user_id' = None
    /\ history' = <<>>
    /\ response' = <<>>
    /\ idx' = 1
    /\ has_tool_call' = FALSE
    /\ parts_for_next_turn' = <<>>
    /\ tool_calls_info' = <<>>
    /\ returned' = NotReturned
    /\ return_site' = None
    /\ submissions' = <<>>
    /\ requests' = <<>>
    /\ invocations' = <<>>
    /\ UNCHANGED store_vars

\* the tasks and the agent alone: run_todo_agent called without history,
\* the conversation store left as it is
Next ==
    \/ (\E u \in Users, title \in Titles : create_task(u, title))
          /\ UNCHANGED chat_vars
    \/ (\E u \in Users, message \in Messages : run_todo_agent(u, message, <<>>))
          /\ UNCHANGED chat_vars
    \/ (\E parts \in Responses : send_message_returns(parts))
          /\ UNCHANGED chat_vars
    \/ (\E e \in ModelErrors : send_message_raises(e))
          /\ UNCHANGED chat_vars
    \/ for_part /\ UNCHANGED chat_vars
    \/ return_final_text /\ UNCHANGED chat_vars
    \/ send_tool_results /\ UNCHANGED chat_vars
    \/ turn_over /\ UNCHANGED chat_vars

Spec == Init /\ [][Next]_vars

(***************************************************************************)
(* json.dumps and json.loads on an audit trail (routes/chat.py).  A JSON   *)
(* text is kept as the document it denotes.  The values of an audit trail  *)
(* are integers under the keys task_id and id, booleans under completed,   *)
(* strings elsewhere.                                                      *)
(***************************************************************************)
JString(s) == [json |-> "string", str |-> s]
JNumber(n) == [json |-> "number", num |-> n]
JBool(b) == [json |-> IF b THEN "true" ELSE "false"]
JArray(items) == [json |-> "array", items |-> items]
JObject(members) == [json |-> "object", members |-> members]

DumpsScalar(key, v) ==
    IF key \in {"task_id", "id"} THEN JNumber(v)
    ELSE IF key = "completed" THEN JBool(v)
    ELSE JString(v)

DumpsDict(d) == JObject([k \in DOMAIN d |-> DumpsScalar(k, d[k])])

DumpsList(rows) == JArray([i \in DOMAIN rows |-> DumpsDict(rows[i])])

\* every result becomes an object: the rows of a list are lost
Dumps_ListAsObject(trail) ==
    JArray([i \in DOMAIN trail |->
              JObject([tool |-> JString(trail[i].tool),
                       arguments |-> DumpsDict(trail[i].arguments),
                       result |-> IF trail[i].result.type = "dict"
                                    THEN DumpsDict(trail[i].result.value)
                                    ELSE DumpsDict(<<>>)])])

\* json.dumps(agent_result["tool_calls"])
Dumps(trail) ==
    JArray([i \in DOMAIN trail |->
              JObject([tool |-> JString(trail[i].tool),
                       arguments |-> DumpsDict(trail[i].arguments),
                       result |-> IF trail[i].result.type = "dict"
                                    THEN DumpsDict(trail[i].result.value)
                                    ELSE DumpsList(trail[i].result.value)])])

LoadsScalar(j) ==
    IF j.json = "number" THEN j.num
    ELSE IF j.json = "true" THEN TRUE
    ELSE IF j.json = "false" THEN FALSE
    ELSE j.str

LoadsDict(j) == [k \in DOMAIN j.members |-> LoadsScalar(j.members[k])]

\* an object loads as a dict, an array as a list
LoadsValue(j) ==
    IF j.json = "object" THEN Dict(LoadsDict(j))
    ELSE List([i \in DOMAIN j.items |-> LoadsDict(j.items[i])])

\* json.loads of a stored tool_calls text
Loads(text) ==
    [i \in DOMAIN text.items |->
       [tool |-> LoadsScalar(text.items[i].members.tool),
        arguments |-> LoadsDict(text.items[i].members.arguments),
        result |-> LoadsValue(text.items[i].members.result)]]

\* a column value: NULL or a text
SqlNull == [sql |-> "null"]
SqlText(t) == [sql |-> "text", text |-> t]

(***************************************************************************)
(* The chat route (routes/chat.py) over the tables conversations and       *)
(* messages.  The handlers are coroutines that never suspend, served by    *)
(* one event loop (run_server.py), so a request is taken when no other is  *)
(* being served.  The clocks of the application and of the database are    *)
(* taken to agree.                                                         *)
(***************************************************************************)
MaxConversations == 2
MaxMessages == 6

ConversationIds == 1..MaxConversations

\* u3 presents a valid token and has no row in the table users
Callers == Users \cup {"u3"}

\* db.get(User, user_id)
user_exists(u) == u \in Users

\* request.message[:50] + "..." for a longer message; the messages of
\* Messages are shorter
Title(message) == message

\* select(Conversation).where(Conversation.id == id, Conversation.user_id == user_id)
FindConversation_AnyOwner(id, u) == {c \in conversations : c.id = id}

FindConversation(id, u) == {c \in conversations : c.id = id /\ c.user_id = u}

\* select(Message).where(Message.conversation_id == id).order_by(Message.created_at)
RECURSIVE OrderByCreatedAt(_)
OrderByCreatedAt(S) ==
    IF S = {} THEN <<>>
    ELSE LET m == CHOOSE x \in S : \A y \in S : x.created_at <= y.created_at
         IN <<m>> \o OrderByCreatedAt(S \ {m})

MessagesOf(id) == OrderByCreatedAt({m \in messages : m.conversation_id = id})

\* .order_by(Conversation.updated_at): the least recently updated first
RECURSIVE OrderByUpdatedAt_Ascending(_)
OrderByUpdatedAt_Ascending(S) ==
    IF S = {} THEN <<>>
    ELSE LET c == CHOOSE x \in S : \A y \in S : x.updated_at <= y.updated_at
         IN <<c>> \o OrderByUpdatedAt_Ascending(S \ {c})

\* .order_by(Conversation.updated_at.desc())
RECURSIVE OrderByUpdatedAt(_)
OrderByUpdatedAt(S) ==
    IF S = {} THEN <<>>
    ELSE LET c == CHOOSE x \in S : \A y \in S : x.updated_at >= y.updated_at
         IN <<c>> \o OrderByUpdatedAt(S \ {c})

\* the Gemini history of the fetched messages
GeminiHistory(db_messages) ==
    [i \in DOMAIN db_messages |->
       [role |-> IF db_messages[i].role = "user" THEN "user" ELSE "model",
        parts |-> <<db_messages[i].content>>]]

\* ToolCallInfo(**tc): tool: str, arguments: dict, result: dict
ToolCallInfo(tc) == tc.result.type = "dict"

Answer(endpoint, u, id, status, body) ==
    [endpoint |-> endpoint, user |-> u, conversation_id |-> id,
     status |-> status, body |-> body]

NotFound == [detail |-> "Conversation not found"]

\* the conversation is looked up or created first, the user row after
send_chat_message_conversation_first(u, message, id) ==
    /\ pc = "idle"
    /\ chat_pc = "idle"
    /\ IF id # 0
         THEN IF FindConversation(id, u) = {}
                THEN /\ http' = Answer("send_chat_message", u, id, 404, NotFound)
                     /\ UNCHANGED <<table_vars, clock, handler_vars>>
                ELSE /\ next_message_id + 1 <= MaxMessages
                     /\ chat_pc' = "have_conversation"
                     /\ request' = [user |-> u, message |-> message, conversation_id |-> id]
                     /\ conversation' = id
                     /\ http' = NoAnswer
                     /\ UNCHANGED <<table_vars, clock, gemini_history>>
         ELSE /\ next_conversation_id <= MaxConversations
              /\ next_message_id + 1 <= MaxMessages
              /\ conversations' = conversations \cup
                   {[id |-> next_conversation_id, user_id |-> u,
                     title |-> Title(message),
                     created_at |-> clock, updated_at |-> clock + 1]}
              /\ next_conversation_id' = next_conversation_id + 1
              /\ clock' = clock + 2
              /\ UNCHANGED <<messages, next_message_id, gemini_history>>
              /\ IF ~user_exists(u)
                   THEN /\ http' = Answer("send_chat_message", u, id, 401,
                                          [detail |-> "User record not found. Please sign out and sign up again."])
                        /\ UNCHANGED <<chat_pc, request, conversation>>
                   ELSE /\ chat_pc' = "have_conversation"
                        /\ request' = [user |-> u, message |-> message,
                                       conversation_id |-> id]
                        /\ conversation' = next_conversation_id
                        /\ http' = NoAnswer
    /\ UNCHANGED <<store_vars, pc, user_id, history, loop_vars, tool_calls_info,
                   returned, return_site, log_vars>>

\* POST /api/chat up to the conversation: the user row, then the
\* conversation of the request or a new one.  A conversation_id of 0 is
\* no conversation_id, as for `if request.conversation_id`.
send_chat_message(u, message, id) ==
    /\ pc = "idle"
    /\ chat_pc = "idle"
    /\ IF ~user_exists(u)
         THEN /\ http' = Answer("send_chat_message", u, id, 401,
                                [detail |-> "User record not found. Please sign out and sign up again."])
              /\ UNCHANGED <<table_vars, clock, handler_vars>>
         ELSE IF id # 0
           THEN IF FindConversation(id, u) = {}
                  THEN /\ http' = Answer("send_chat_message", u, id, 404, NotFound)
                       /\ UNCHANGED <<table_vars, clock, handler_vars>>
                  ELSE /\ next_message_id + 1 <= MaxMessages
                       /\ chat_pc' = "have_conversation"
                       /\ request' = [user |-> u, message |-> message, conversation_id |-> id]
                       /\ conversation' = id
                       /\ http' = NoAnswer
                       /\ UNCHANGED <<table_vars, clock, gemini_history>>
           ELSE /\ next_conversation_id <= MaxConversations
                /\ next_message_id + 1 <= MaxMessages
                /\ conversations' = conversations \cup
                     {[id |-> next_conversation_id, user_id |-> u,
                       title |-> Title(message),
                       created_at |-> clock, updated_at |-> clock + 1]}
                /\ next_conversation_id' = next_conversation_id + 1
                /\ clock' = clock + 2
                /\ chat_pc' = "have_conversation"
                /\ request' = [user |-> u, message |-> message, conversation_id |-> id]
                /\ conversation' = next_conversation_id
                /\ http' = NoAnswer
                /\ UNCHANGED <<messages, next_message_id, gemini_history>>
    /\ UNCHANGED <<store_vars, pc, user_id, history, loop_vars, tool_calls_info,
                   returned, return_site, log_vars>>

\* the history is fetched after the user message is saved
save_user_message_then_history ==
    /\ chat_pc = "have_conversation"
    /\ LET user_msg == [id |-> next_message_id, user_id |-> request.user,
                        conversation_id |-> conversation, role |-> "user",
                        content |-> request.message, tool_calls |-> SqlNull,
                        created_at |-> clock]
           h == GeminiHistory(OrderByCreatedAt(
                   {m \in messages \cup {user_msg} : m.conversation_id = conversation}))
       IN /\ gemini_history' = h
          /\ messages' = messages \cup {user_msg}
          /\ next_message_id' = next_message_id + 1
          /\ clock' = clock + 1
          /\ chat_pc' = "awaiting_agent"
          /\ run_todo_agent(request.user, request.message, h)
    /\ UNCHANGED <<conversations, next_conversation_id, request, conversation, http>>

\* the history is fetched, the user message saved, the agent called
save_user_message ==
    /\ chat_pc = "have_conversation"
    /\ LET h == GeminiHistory(MessagesOf(conversation))
       IN /\ gemini_history' = h
          /\ messages' = messages \cup
               {[id |-> next_message_id, user_id |-> request.user,
                 conversation_id |-> conversation, role |-> "user",
                 content |-> request.message, tool_calls |-> SqlNull,
                 created_at |-> clock]}
          /\ next_message_id' = next_message_id + 1
          /\ clock' = clock + 1
          /\ chat_pc' = "awaiting_agent"
          /\ run_todo_agent(request.user, request.message, h)
    /\ UNCHANGED <<conversations, next_conversation_id, request, conversation, http>>

\* a reply that reports a failed send is answered but not stored
save_assistant_message_skips_errors ==
    /\ chat_pc = "awaiting_agent"
    /\ pc = "returned"
    /\ LET agent_result == returned
           tool_calls_json == IF agent_result.tool_calls # <<>>
                                THEN SqlText(Dumps(agent_result.tool_calls))
                                ELSE SqlNull
           row == CHOOSE c \in conversations : c.id = conversation
       IN /\ IF return_site = "final text"
               THEN /\ messages' = messages \cup
                         {[id |-> next_message_id, user_id |-> request.user,
                           conversation_id |-> conversation, role |-> "assistant",
                           content |-> agent_result.response,
                           tool_calls |-> tool_calls_json,
                           created_at |-> clock]}
                    /\ conversations' = (conversations \ {row}) \cup
                         {[row EXCEPT !.updated_at = clock + 1]}
                    /\ next_message_id' = next_message_id + 1
                    /\ clock' = clock + 2
               ELSE UNCHANGED <<messages, conversations, next_message_id, clock>>
          /\ http' =
               IF \A i \in DOMAIN agent_result.tool_calls :
                     ToolCallInfo(agent_result.tool_calls[i])
                 THEN Answer("send_chat_message", request.user, request.conversation_id,
                             200,
                             [conversation_id |-> conversation,
                              response |-> agent_result.response,
                              tool_calls |-> agent_result.tool_calls])
                 ELSE Answer("send_chat_message", request.user, request.conversation_id,
                             500, [detail |-> "Internal Server Error"])
    /\ chat_pc' = "idle"
    /\ request' = NoRequest
    /\ conversation' = 0
    /\ gemini_history' = <<>>
    /\ UNCHANGED next_conversation_id
    /\ turn_over

\* run_todo_agent has returned: the assistant message is saved with the
\* conversation's new updated_at, then the ChatResponse is built, which
\* validates every entry of the audit trail as a ToolCallInfo
save_assistant_message ==
    /\ chat_pc = "awaiting_agent"
    /\ pc = "returned"
    /\ LET agent_result == returned
           tool_calls_json == IF agent_result.tool_calls # <<>>
                                THEN SqlText(Dumps(agent_result.tool_calls))
                                ELSE SqlNull
           row == CHOOSE c \in conversations : c.id = conversation
       IN /\ messages' = messages \cup
               {[id |-> next_message_id, user_id |-> request.user,
                 conversation_id |-> conversation, role |-> "assistant",
                 content |-> agent_result.response, tool_calls |-> tool_calls_json,
                 created_at |-> clock]}
          /\ conversations' = (conversations \ {row}) \cup
               {[row EXCEPT !.updated_at = clock + 1]}
          /\ next_message_id' = next_message_id + 1
          /\ clock' = clock + 2
          /\ http' =
               IF \A i \in DOMAIN agent_result.tool_calls :
                     ToolCallInfo(agent_result.tool_calls[i])
                 THEN Answer("send_chat_message", request.user, request.conversation_id,
                             200,
                             [conversation_id |-> conversation,
                              response |-> agent_result.response,
                              tool_calls |-> agent_result.tool_calls])
                 ELSE Answer("send_chat_message", request.user, request.conversation_id,
                             500, [detail |-> "Internal Server Error"])
    /\ chat_pc' = "idle"
    /\ request' = NoRequest
    /\ conversation' = 0
    /\ gemini_history' = <<>>
    /\ UNCHANGED next_conversation_id
    /\ turn_over

agent_vars == <<store_vars, pc, user_id, history, loop_vars, tool_calls_info,
                returned, return_site, log_vars>>

\* GET /api/chat/conversations
list_conversations(u) ==
    /\ pc = "idle"
    /\ chat_pc = "idle"
    /\ LET result == [c \in DOMAIN OrderByUpdatedAt({x \in conversations : x.user_id = u}) |->
                        LET conv == OrderByUpdatedAt({x \in conversations : x.user_id = u})[c]
                        IN [id |-> conv.id, title |-> conv.title,
                            created_at |-> conv.created_at,
                            updated_at |-> conv.updated_at]]
       IN http' = Answer("list_conversations", u, 0, 200,
                         [conversations |-> result, total |-> Len(result)])
    /\ UNCHANGED <<table_vars, clock, handler_vars, agent_vars>>

\* GET /api/chat/conversations/{conversation_id}
get_conversation_details(u, id) ==
    /\ pc = "idle"
    /\ chat_pc = "idle"
    /\ IF FindConversation(id, u) = {}
         THEN http' = Answer("get_conversation_details", u, id, 404, NotFound)
         ELSE LET conv == CHOOSE c \in FindConversation(id, u) : TRUE
                  found == MessagesOf(id)
              IN http' = Answer("get_conversation_details", u, id, 200,
                                [id |-> conv.id, title |-> conv.title,
                                 created_at |-> conv.created_at,
                                 updated_at |-> conv.updated_at,
                                 messages |->
                                   [i \in DOMAIN found |->
                                      [id |-> found[i].id, role |-> found[i].role,
                                       content |-> found[i].content,
                                       tool_calls |-> found[i].tool_calls,
                                       created_at |-> found[i].created_at]]])
    /\ UNCHANGED <<table_vars, clock, handler_vars, agent_vars>>

\* the conversation row is deleted, its messages are left
delete_conversation_leaves_messages(u, id) ==
    /\ pc = "idle"
    /\ chat_pc = "idle"
    /\ IF FindConversation(id, u) = {}
         THEN /\ http' = Answer("delete_conversation", u, id, 404, NotFound)
              /\ UNCHANGED <<conversations, messages>>
         ELSE /\ conversations' = conversations \ FindConversation(id, u)
              /\ UNCHANGED messages
              /\ http' = Answer("delete_conversation", u, id, 200,
                                [status |-> "success",
                                 message |-> "Conversation deleted"])
    /\ UNCHANGED <<next_conversation_id, next_message_id, clock, handler_vars,
                   agent_vars>>

\* the messages are selected by their user, not by their conversation
delete_conversation_all_of_user(u, id) ==
    /\ pc = "idle"
    /\ chat_pc = "idle"
    /\ IF FindConversation(id, u) = {}
         THEN /\ http' = Answer("delete_conversation", u, id, 404, NotFound)
              /\ UNCHANGED <<conversations, messages>>
         ELSE /\ conversations' = conversations \ FindConversation(id, u)
              /\ messages' = {m \in messages : m.user_id # u}
              /\ http' = Answer("delete_conversation", u, id, 200,
                                [status |-> "success",
                                 message |-> "Conversation deleted"])
    /\ UNCHANGED <<next_conversation_id, next_message_id, clock, handler_vars,
                   agent_vars>>

\* DELETE /api/chat/conversations/{conversation_id}
delete_conversation(u, id) ==
    /\ pc = "idle"
    /\ chat_pc = "idle"
    /\ IF FindConversation(id, u) = {}
         THEN /\ http' = Answer("delete_conversation", u, id, 404, NotFound)
              /\ UNCHANGED <<conversations, messages>>
         ELSE /\ conversations' = conversations \ FindConversation(id, u)
              /\ messages' = {m \in messages : m.conversation_id # id}
              /\ http' = Answer("delete_conversation", u, id, 200,
                                [status |-> "success",
                                 message |-> "Conversation deleted"])
    /\ UNCHANGED <<next_conversation_id, next_message_id, clock, handler_vars,
                   agent_vars>>

\* what the model answers in the turns of the chat route: a text, or one
\* round of requests and then a text
FinalResponses == {<<TextPart("a")>>}

ToolResponses ==
    {<<CallPart("list_tasks", NoArgs)>>,
     <<CallPart("add_task", [title |-> "t1"])>>,
     <<CallPart("add_task", NoArgs), CallPart("remind_me", NoArgs)>>}

ChatResponses == IF submissions # <<>> /\ Len(submissions) = 1
                   THEN FinalResponses \cup ToolResponses
                   ELSE FinalResponses

ChatNext ==
    \/ (\E u \in Callers, message \in Messages, id \in {0} \cup ConversationIds :
          send_chat_message(u, message, id))
          /\ UNCHANGED other
    \/ save_user_message /\ UNCHANGED other
    \/ (\E parts \in ChatResponses : send_message_returns(parts))
          /\ UNCHANGED chat_vars
    \/ (\E e \in ModelErrors : send_message_raises(e))
          /\ UNCHANGED chat_vars
    \/ for_part /\ UNCHANGED chat_vars
    \/ return_final_text /\ UNCHANGED chat_vars
    \/ send_tool_results /\ UNCHANGED chat_vars
    \/ save_assistant_message /\ UNCHANGED other
    \/ (\E u \in Users : list_conversations(u)) /\ UNCHANGED other
    \/ (\E u \in Users, id \in ConversationIds : get_conversation_details(u, id))
          /\ UNCHANGED other
    \/ (\E u \in Users, id \in ConversationIds : delete_conversation(u, id))
          /\ UNCHANGED other

ChatSpec == Init /\ [][ChatNext]_vars

(***************************************************************************)
(* Task REST API (routes/tasks.py).  current_user.sub is the caller u.     *)
(* The columns created_at and updated_at are left out of the rows: ids are *)
(* given in the order of creation, so newest first is highest id first.    *)
(***************************************************************************)
MaxStoredTasks == 3

StoredTaskIds == 1..MaxStoredTasks

\* an answer of the task API
TaskAnswer(endpoint, u, task_id, status, body) ==
    [endpoint |-> endpoint, user |-> u, task_id |-> task_id, status |-> status,
     body |-> body]

\* what the handlers of the task API leave alone
rest_frame == <<pc, user_id, history, loop_vars, tool_calls_info, returned, return_site,
                log_vars, table_vars, clock, handler_vars, other>>

\* the task is handed out whoever owns it
get_task_or_404_AnyOwner(task_id, uid, db) ==
    LET found == {t \in db : t.id = task_id}
    IN IF found = {} THEN [status |-> 404, detail |-> "Task not found"]
       ELSE [status |-> 200, task |-> CHOOSE t \in found : TRUE]

\* db.get(Todo, task_id); 404 without a row, 403 for a row of another user
get_task_or_404(task_id, uid, db) ==
    LET found == {t \in db : t.id = task_id}
    IN IF found = {} THEN [status |-> 404, detail |-> "Task not found"]
       ELSE LET task == CHOOSE t \in found : TRUE
            IN IF task.user_id # uid
                 THEN [status |-> 403, detail |-> "Not authorized to access this task"]
                 ELSE [status |-> 200, task |-> task]

\* order_by(Todo.created_at.desc())
RECURSIVE NewestFirst(_)
NewestFirst(S) ==
    IF S = {} THEN <<>>
    ELSE LET t == CHOOSE x \in S : \A y \in S : x.id >= y.id
         IN <<t>> \o NewestFirst(S \ {t})

\* .offset(skip).limit(limit)
Page(rows, skip, limit) ==
    SubSeq(rows, skip + 1, IF skip + limit < Len(rows) THEN skip + limit ELSE Len(rows))

\* GET /api/tasks
tasks_list_tasks(u, skip, limit) ==
    /\ pc = "idle"
    /\ LET mine == {t \in todos : t.user_id = u}
           total == Cardinality(mine)
           tasks == Page(NewestFirst(mine), skip, limit)
       IN http' = TaskAnswer("list_tasks", u, 0, 200, [tasks |-> tasks, total |-> total])
    /\ UNCHANGED <<store_vars, rest_frame>>

\* POST /api/tasks
tasks_create_task(u, title) ==
    /\ pc = "idle"
    /\ next_id <= MaxStoredTasks
    /\ LET task == [id |-> next_id, user_id |-> u, title |-> title,
                    description |-> None, completed |-> FALSE]
       IN /\ todos' = todos \cup {task}
          /\ http' = TaskAnswer("create_task", u, 0, 201, task)
    /\ next_id' = next_id + 1
    /\ UNCHANGED rest_frame

\* GET /api/tasks/{task_id}
get_task(u, task_id) ==
    /\ pc = "idle"
    /\ LET r == get_task_or_404(task_id, u, todos)
       IN http' = IF r.status = 200
                    THEN TaskAnswer("get_task", u, task_id, 200, r.task)
                    ELSE TaskAnswer("get_task", u, task_id, r.status,
                                    [detail |-> r.detail])
    /\ UNCHANGED <<store_vars, rest_frame>>

\* PUT /api/tasks/{task_id}: the fields that were set in the body are
\* assigned (model_dump(exclude_unset=True))
tasks_update_task(u, task_id, task_data) ==
    /\ pc = "idle"
    /\ LET r == get_task_or_404(task_id, u, todos)
       IN IF r.status = 200
            THEN LET task == [k \in DOMAIN r.task |->
                                IF k \in DOMAIN task_data THEN task_data[k]
                                ELSE r.task[k]]
                 IN /\ todos' = (todos \ {r.task}) \cup {task}
                    /\ http' = TaskAnswer("update_task", u, task_id, 200, task)
            ELSE /\ http' = TaskAnswer("update_task", u, task_id, r.status,
                                       [detail |-> r.detail])
                 /\ UNCHANGED todos
    /\ UNCHANGED <<next_id, rest_frame>>

\* DELETE /api/tasks/{task_id}
tasks_delete_task(u, task_id) ==
    /\ pc = "idle"
    /\ LET r == get_task_or_404(task_id, u, todos)
       IN IF r.status = 200
            THEN /\ todos' = todos \ {r.task}
                 /\ http' = TaskAnswer("delete_task", u, task_id, 204, <<>>)
            ELSE /\ http' = TaskAnswer("delete_task", u, task_id, r.status,
                                       [detail |-> r.detail])
                 /\ UNCHANGED todos
    /\ UNCHANGED <<next_id, rest_frame>>

\* completed is set, not flipped
toggle_complete_SetsTrue(u, task_id) ==
    /\ pc = "idle"
    /\ LET r == get_task_or_404(task_id, u, todos)
       IN IF r.status = 200
            THEN LET task == [r.task EXCEPT !.completed = TRUE]
                 IN /\ todos' = (todos \ {r.task}) \cup {task}
                    /\ http' = TaskAnswer("toggle_complete", u, task_id, 200, task)
            ELSE /\ http' = TaskAnswer("toggle_complete", u, task_id, r.status,
                                       [detail |-> r.detail])
                 /\ UNCHANGED todos
    /\ UNCHANGED <<next_id, rest_frame>>

\* PATCH /api/tasks/{task_id}/complete: task.completed = not task.completed
toggle_complete(u, task_id) ==
    /\ pc = "idle"
    /\ LET r == get_task_or_404(task_id, u, todos)
       IN IF r.status = 200
            THEN LET task == [r.task EXCEPT !.completed = ~@]
                 IN /\ todos' = (todos \ {r.task}) \cup {task}
                    /\ http' = TaskAnswer("toggle_complete", u, task_id, 200, task)
            ELSE /\ http' = TaskAnswer("toggle_complete", u, task_id, r.status,
                                       [detail |-> r.detail])
                 /\ UNCHANGED todos
    /\ UNCHANGED <<next_id, rest_frame>>

\* bodies of PUT requests: the fields the client set
TaskUpdates == {[title |-> "t2"], [completed |-> TRUE]}

\* the values of skip; limit keeps its default
Skips == {0, 1}
DefaultLimit == 100

\* what the model answers in the turns taken beside the task API: one
\* request on a stored id, or the same completion twice, and then a text
TaskToolResponses ==
    {<<CallPart(name, [task_id |-> i])>> :
        name \in {"complete_task", "delete_task"}, i \in StoredTaskIds}
    \cup {<<CallPart("update_task", [task_id |-> i, title |-> "t2"])>> :
            i \in StoredTaskIds}
    \cup {<<CallPart("complete_task", [task_id |-> i]),
            CallPart("complete_task", [task_id |-> i])>> : i \in StoredTaskIds}

TaskResponses == IF submissions # <<>> /\ Len(submissions) = 1
                   THEN TaskToolResponses
                   ELSE FinalResponses

TaskNext ==
    \/ \E u \in Users : tasks_create_task(u, "t1")
    \/ \E u \in Users, skip \in Skips : tasks_list_tasks(u, skip, DefaultLimit)
    \/ \E u \in Users, i \in StoredTaskIds : get_task(u, i)
    \/ \E u \in Users, i \in StoredTaskIds, task_data \in TaskUpdates :
          tasks_update_task(u, i, task_data)
    \/ \E u \in Users, i \in StoredTaskIds : tasks_delete_task(u, i)
    \/ \E u \in Users, i \in StoredTaskIds : toggle_complete(u, i)
    \/ (\E u \in Users, message \in Messages : run_todo_agent(u, message, <<>>))
          /\ http' = NoAnswer
          /\ UNCHANGED <<table_vars, clock, handler_vars, other>>
    \/ (\E parts \in TaskResponses : send_message_returns(parts))
          /\ UNCHANGED chat_vars
    \/ for_part /\ UNCHANGED chat_vars
    \/ return_final_text /\ UNCHANGED chat_vars
    \/ send_tool_results /\ UNCHANGED chat_vars
    \/ turn_over /\ UNCHANGED chat_vars

TaskSpec == Init /\ [][TaskNext]_vars

(***************************************************************************)
(* Two server processes.  send_chat_message takes no lock and holds no     *)
(* transaction from its first commit to its last, and the database is the  *)
(* only thing two processes share.  The second process runs the same       *)
(* handler; its steps are the handler's database accesses, in order, and   *)
(* its agent answers with a text and no tool call.                         *)
(***************************************************************************)
\* what the second request says, and what the model answers to it
OtherMessages == {"hello again"}
OtherTexts == {"b"}

\* the request waits until the first process serves none
other_send_chat_message_excluded(u, message, id) ==
    /\ chat_pc = "idle"
    /\ other.chat_pc = "idle"
    /\ user_exists(u)
    /\ id # 0
    /\ FindConversation(id, u) # {}
    /\ next_message_id + 1 <= MaxMessages
    /\ other' = [other EXCEPT
                   !.chat_pc = "have_conversation",
                   !.request = [user |-> u, message |-> message, conversation_id |-> id],
                   !.conversation = id,
                   !.http = NoAnswer]
    /\ UNCHANGED <<table_vars, clock, handler_vars, http, agent_vars>>

\* POST /api/chat in the second process, up to the conversation
other_send_chat_message(u, message, id) ==
    /\ other.chat_pc = "idle"
    /\ IF ~user_exists(u)
         THEN /\ other' = [other EXCEPT !.http =
                   Answer("send_chat_message", u, id, 401,
                          [detail |-> "User record not found. Please sign out and sign up again."])]
              /\ UNCHANGED <<table_vars, clock>>
         ELSE IF id # 0
           THEN IF FindConversation(id, u) = {}
                  THEN /\ other' = [other EXCEPT !.http =
                            Answer("send_chat_message", u, id, 404, NotFound)]
                       /\ UNCHANGED <<table_vars, clock>>
                  ELSE /\ next_message_id + 1 <= MaxMessages
                       /\ other' = [other EXCEPT
                            !.chat_pc = "have_conversation",
                            !.request = [user |-> u, message |-> message,
                                         conversation_id |-> id],
                            !.conversation = id,
                            !.http = NoAnswer]
                       /\ UNCHANGED <<table_vars, clock>>
           ELSE /\ next_conversation_id <= MaxConversations
                /\ next_message_id + 1 <= MaxMessages
                /\ conversations' = conversations \cup
                     {[id |-> next_conversation_id, user_id |-> u,
                       title |-> Title(message),
                       created_at |-> clock, updated_at |-> clock + 1]}
                /\ next_conversation_id' = next_conversation_id + 1
                /\ clock' = clock + 2
                /\ other' = [other EXCEPT
                     !.chat_pc = "have_conversation",
                     !.request = [user |-> u, message |-> message, conversation_id |-> id],
                     !.conversation = next_conversation_id,
                     !.http = NoAnswer]
                /\ UNCHANGED <<messages, next_message_id>>
    /\ UNCHANGED <<handler_vars, http, agent_vars>>

\* the second process fetches the history and saves its user message
other_save_user_message ==
    /\ other.chat_pc = "have_conversation"
    /\ other' = [other EXCEPT
                   !.chat_pc = "awaiting_agent",
                   !.gemini_history = GeminiHistory(MessagesOf(other.conversation))]
    /\ messages' = messages \cup
         {[id |-> next_message_id, user_id |-> other.request.user,
           conversation_id |-> other.conversation, role |-> "user",
           content |-> other.request.message, tool_calls |-> SqlNull,
           created_at |-> clock]}
    /\ next_message_id' = next_message_id + 1
    /\ clock' = clock + 1
    /\ UNCHANGED <<conversations, next_conversation_id, handler_vars, http, agent_vars>>

\* its agent has returned {response: text, tool_calls: []}: the assistant
\* message is saved with the conversation's new updated_at and the
\* ChatResponse is the answer
other_save_assistant_message(text) ==
    /\ other.chat_pc = "awaiting_agent"
    /\ \E row \in conversations :
          /\ row.id = other.conversation
          /\ conversations' = (conversations \ {row}) \cup
               {[row EXCEPT !.updated_at = clock + 1]}
    /\ messages' = messages \cup
         {[id |-> next_message_id, user_id |-> other.request.user,
           conversation_id |-> other.conversation, role |-> "assistant",
           content |-> text, tool_calls |-> SqlNull,
           created_at |-> clock]}
    /\ next_message_id' = next_message_id + 1
    /\ clock' = clock + 2
    /\ other' = [NoOther EXCEPT !.http =
                   Answer("send_chat_message", other.request.user,
                          other.request.conversation_id, 200,
                          [conversation_id |-> other.conversation,
                           response |-> text, tool_calls |-> <<>>])]
    /\ UNCHANGED <<next_conversation_id, handler_vars, http, agent_vars>>

RaceNext ==
    \/ (\E u \in Users, message \in Messages, id \in {0} \cup ConversationIds :
          send_chat_message(u, message, id))
          /\ UNCHANGED other
    \/ save_user_message /\ UNCHANGED other
    \/ (\E parts \in FinalResponses : send_message_returns(parts))
          /\ UNCHANGED chat_vars
    \/ for_part /\ UNCHANGED chat_vars
    \/ return_final_text /\ UNCHANGED chat_vars
    \/ save_assistant_message /\ UNCHANGED other
    \/ \E u \in Users, message \in OtherMessages, id \in {0} \cup ConversationIds :
          other_send_chat_message(u, message, id)
    \/ other_save_user_message
    \/ \E text \in OtherTexts : other_save_assistant_message(text)

RaceSpec == Init /\ [][RaceNext]_vars

(***************************************************************************)
(* Helpers of the properties                                               *)
(***************************************************************************)
RECURSIVE Flatten(_)
Flatten(seqs) == IF seqs = <<>> THEN <<>> ELSE Head(seqs) \o Flatten(Tail(seqs))

\* the requests the model made so far this turn, in request order
Requested == Flatten(requests)

\* the {tool, arguments} of an audit trail
AsRequests(trail) ==
    [i \in DOMAIN trail |-> [name |-> trail[i].tool, args |-> trail[i].arguments]]

Last(seq) == seq[Len(seq)]

\* the for loop stands at a function_call part
AtCall == pc = "inspecting" /\ idx <= Len(response) /\ IsCall(response[idx])
AtEnd == pc = "inspecting" /\ idx > Len(response)
CallHere == response[idx].function_call

NotRegistered(name) == Dict([error |-> "Tool " \o name \o " is not registered."])

OthersTasks(store, u) == {t \in store : t.user_id # u}

(***************************************************************************)
(* C1  Every implementation a turn invokes is called with user_id equal to *)
(* the user_id run_todo_agent was called with, whatever the model put      *)
(* under the key user_id of its arguments; the other arguments are the     *)
(* model's.                                                                *)
(***************************************************************************)
C1_UserIdInjected ==
    [][AtCall /\ CallHere.name \in TOOL_FUNCTIONS =>
         /\ Len(invocations') = Len(invocations) + 1
         /\ Last(invocations').name = CallHere.name
         /\ Last(invocations').args.user_id = user_id
         /\ \A k \in DOMAIN CallHere.args \ {"user_id"} :
               Last(invocations').args[k] = CallHere.args[k]]_vars

\* an implementation ran for a request in which the model named another user
C1_Witness ==
    /\ invocations # <<>>
    /\ \E i \in DOMAIN tool_calls_info :
          LET a == tool_calls_info[i].arguments
          IN /\ tool_calls_info[i].tool \in TOOL_FUNCTIONS
             /\ "user_id" \in DOMAIN a
             /\ a.user_id # user_id

(***************************************************************************)
(* C2  While a turn of user U runs, no step of it creates, changes or      *)
(* removes a task whose user_id is not U, and every row a list_tasks       *)
(* result carries is a task of U as the table holds it.                    *)
(***************************************************************************)
C2_OnlyOwnData ==
    [][pc = "inspecting" =>
         /\ OthersTasks(todos', user_id) = OthersTasks(todos, user_id)
         /\ (AtCall /\ CallHere.name = "list_tasks"
               /\ Last(tool_calls_info').result.type = "list") =>
              \A i \in DOMAIN Last(tool_calls_info').result.value :
                 LET row == Last(tool_calls_info').result.value[i]
                 IN \E t \in todos :
                       /\ t.user_id = user_id
                       /\ row = [id |-> t.id, title |-> t.title,
                                 completed |-> t.completed]]_vars

\* a tool ran for U on the id of a task of another user, and a list_tasks
\* of a turn returned a row
C2_Witness ==
    /\ \E i \in DOMAIN invocations, t \in todos :
          /\ t.user_id # user_id
          /\ invocations[i].name \in {"complete_task", "delete_task", "update_task"}
          /\ ~invocations[i].raised
          /\ invocations[i].args.task_id = t.id
    /\ \E i \in DOMAIN tool_calls_info : tool_calls_info[i].tool = "list_tasks"

\* tool-exchange rounds the turn has completed: the follow-up submissions
Rounds == IF submissions = <<>> THEN 0 ELSE Len(submissions) - 1

(***************************************************************************)
(* C3  A turn runs at most max_rounds tool-exchange rounds, however often  *)
(* the model requests a tool: a model that requests a tool in every        *)
(* response is cut off by the round budget.                                *)
(***************************************************************************)
C3_RoundBudget == Rounds <= max_rounds

(***************************************************************************)
(* C4  A response without function_call is terminal: from the moment it    *)
(* is inspected the turn submits nothing more, invokes no tool, changes no *)
(* task and records nothing; at the end of its parts it returns, with the  *)
(* audit trail as it stands (empty when it was the first response); after  *)
(* the return the turn does nothing more.                                  *)
(***************************************************************************)
C4_NoToolResponseIsTerminal ==
    [][/\ (pc = "inspecting" /\ Calls(response) = <<>>) =>
            /\ pc' \in {"inspecting", "returned"}
            /\ submissions' = submissions
            /\ invocations' = invocations
            /\ tool_calls_info' = tool_calls_info
            /\ UNCHANGED store_vars
            /\ AtEnd =>
                 /\ pc' = "returned"
                 /\ return_site' = "final text"
                 /\ returned'.tool_calls = tool_calls_info
                 /\ Len(submissions) = 1 => returned'.tool_calls = <<>>
       /\ pc = "returned" => (pc' = "idle" /\ UNCHANGED store_vars)]_vars

\* the first response carried text and no function_call, and the turn returned
C4_Witness ==
    /\ pc = "returned"
    /\ return_site = "final text"
    /\ Len(submissions) = 1
    /\ response # <<>>
    /\ returned.tool_calls = <<>>

(***************************************************************************)
(* C5  The text returned after a response without function_call is never   *)
(* empty, whatever text parts the response has and however many tool calls *)
(* the turn made before (none included).                                   *)
(***************************************************************************)
C5_FinalTextNonEmpty == return_site = "final text" => returned.response # ""

\* the registered entries of an audit trail
RECURSIVE Registered(_)
Registered(trail) ==
    IF trail = <<>> THEN <<>>
    ELSE (IF Head(trail).tool \in TOOL_FUNCTIONS THEN <<Head(trail)>> ELSE <<>>)
         \o Registered(Tail(trail))

(***************************************************************************)
(* C6  The follow-up submission of a round is a barrier.  While a response *)
(* with k >= 1 requests is inspected nothing is submitted; once the model  *)
(* is awaited again every request made so far has been executed and        *)
(* recorded, one follow-up has been made per round, and the follow-up of   *)
(* round j carries exactly as many parts as round j had requests.          *)
(***************************************************************************)
C6_FollowUpBarrier ==
    /\ \A j \in 1..Rounds :
          /\ j <= Len(requests)
          /\ Len(requests[j]) >= 1
          /\ Len(submissions[j + 1].parts) = Len(requests[j])
    /\ (pc = "inspecting" /\ Calls(response) # <<>>) => Rounds = Len(requests) - 1
    /\ pc = "awaiting_model" =>
          /\ Rounds = Len(requests)
          /\ Len(tool_calls_info) = Len(Requested)

\* a response with two requests was answered by one follow-up with two parts
C6_Witness ==
    /\ pc = "awaiting_model"
    /\ Rounds = 1
    /\ Len(requests[1]) = 2
    /\ Len(submissions[2].parts) = 2

(***************************************************************************)
(* C7  One execution attempt and one audit entry per request, in request   *)
(* order.  The audit trail lists the requests the loop has passed, in the  *)
(* order the model made them (by round, then by position); the             *)
(* implementations invoked are those of its registered entries, one each,  *)
(* in the same order, also for a call that raised; what a turn returns     *)
(* after its last response is that trail, one entry per request made.      *)
(***************************************************************************)
C7_OneAttemptOneEntryInOrder ==
    /\ Len(tool_calls_info) <= Len(Requested)
    /\ AsRequests(tool_calls_info) = SubSeq(Requested, 1, Len(tool_calls_info))
    /\ Len(invocations) = Len(Registered(tool_calls_info))
    /\ \A i \in DOMAIN invocations :
          /\ invocations[i].name = Registered(tool_calls_info)[i].tool
          /\ \A k \in DOMAIN Registered(tool_calls_info)[i].arguments \ {"user_id"} :
                invocations[i].args[k] = Registered(tool_calls_info)[i].arguments[k]
    /\ (pc = "returned" /\ return_site # "initial send failed") =>
          /\ returned.tool_calls = tool_calls_info
          /\ AsRequests(returned.tool_calls) = Requested

\* a turn returned two entries from two rounds, the first for a call that raised
C7_Witness ==
    /\ pc = "returned"
    /\ Len(requests) = 2
    /\ Len(returned.tool_calls) = 2
    /\ Len(invocations) = 2
    /\ invocations[1].raised
    /\ returned.tool_calls[1].tool # returned.tool_calls[2].tool

(***************************************************************************)
(* C8  A request for a name that is not registered invokes nothing and     *)
(* changes no task; its result, in the audit trail and in the reply part   *)
(* for the model, is the failure "Tool {name} is not registered."; the     *)
(* loop goes on to the next part, and at the end of the parts the          *)
(* follow-up is submitted with the reply parts of the round.               *)
(***************************************************************************)
C8_UnregisteredTool ==
    [][/\ (AtCall /\ CallHere.name \notin TOOL_FUNCTIONS) =>
            /\ invocations' = invocations
            /\ UNCHANGED store_vars
            /\ tool_calls_info' =
                 Append(tool_calls_info,
                        [tool |-> CallHere.name, arguments |-> CallHere.args,
                         result |-> NotRegistered(CallHere.name)])
            /\ parts_for_next_turn' =
                 Append(parts_for_next_turn,
                        [name |-> CallHere.name,
                         response |-> NotRegistered(CallHere.name)])
            /\ pc' = "inspecting"
            /\ idx' = idx + 1
            /\ response' = response
       /\ (AtEnd /\ \E i \in DOMAIN parts_for_next_turn :
                       parts_for_next_turn[i].name \notin TOOL_FUNCTIONS) =>
            /\ pc' = "awaiting_model"
            /\ submissions' =
                 Append(submissions, [message |-> "", parts |-> parts_for_next_turn])]_vars

\* an unregistered request, then a registered one of the same round that
\* ran, and the follow-up carrying both results
C8_Witness ==
    /\ pc = "awaiting_model"
    /\ Rounds = 1
    /\ Len(submissions[2].parts) = 2
    /\ submissions[2].parts[1].name \notin TOOL_FUNCTIONS
    /\ submissions[2].parts[1].response = NotRegistered(submissions[2].parts[1].name)
    /\ submissions[2].parts[2].name \in TOOL_FUNCTIONS
    /\ Len(invocations) = 1

(***************************************************************************)
(* C9  An implementation that raises does not end the turn: the request    *)
(* gets the failure result carrying the exception's message, no task       *)
(* changes, and the loop goes on to the next part.  Every request whose    *)
(* implementation does not raise gets the value it returned and its effect *)
(* on the tasks, whether or not another request of the round raised.       *)
(***************************************************************************)
C9_ToolExceptionIsolated ==
    [][(AtCall /\ CallHere.name \in TOOL_FUNCTIONS) =>
         LET call == Invoke(CallHere.name, ActualArgs(CallHere.args, user_id),
                            todos, next_id)
         IN /\ pc' = "inspecting"
            /\ idx' = idx + 1
            /\ response' = response
            /\ returned' = returned
            /\ Len(tool_calls_info') = Len(tool_calls_info) + 1
            /\ Last(tool_calls_info').tool = CallHere.name
            /\ Last(parts_for_next_turn').response = Last(tool_calls_info').result
            /\ call.raised =>
                 /\ Last(tool_calls_info').result = Dict([error |-> call.exc])
                 /\ UNCHANGED store_vars
            /\ ~call.raised =>
                 /\ Last(tool_calls_info').result = call.result
                 /\ todos' = call.todos]_vars

RaisedAt(i) ==
    /\ tool_calls_info[i].result.type = "dict"
    /\ "error" \in DOMAIN tool_calls_info[i].result.value
    /\ tool_calls_info[i].arguments = NoArgs

CreatedAt(i) ==
    /\ tool_calls_info[i].result.type = "dict"
    /\ "status" \in DOMAIN tool_calls_info[i].result.value

\* add_task without title raised in a round whose other request succeeded
C9_Witness ==
    /\ pc = "awaiting_model"
    /\ Len(requests) = 1
    /\ Len(tool_calls_info) = 2
    /\ Len(invocations) = 2
    /\ invocations[2].raised
    /\ ~invocations[1].raised
    /\ RaisedAt(2)
    /\ CreatedAt(1)

(***************************************************************************)
(* C10  A send that raises ends the turn at once: nothing is submitted     *)
(* again, no tool is invoked, no task changes; the turn returns an error   *)
(* text and as tool_calls the audit trail as it stands, which lists every  *)
(* request made before (none when the first send failed); after the return *)
(* the turn does nothing more.                                             *)
(***************************************************************************)
C10_SendFailureEndsTurn ==
    [][/\ pc = "awaiting_model" =>
            /\ pc' \in {"inspecting", "returned"}
            /\ submissions' = submissions
            /\ invocations' = invocations
       /\ (pc = "awaiting_model" /\ pc' = "returned") =>
            /\ submissions' = submissions
            /\ invocations' = invocations
            /\ UNCHANGED store_vars
            /\ return_site' \in {"initial send failed", "follow-up send failed"}
            /\ \E e \in ModelErrors :
                  returned'.response \in
                    {"I'm sorry, I encountered an error communicating with the AI: " \o e,
                     "I'm sorry, I encountered an error processing the task action: " \o e}
            /\ returned'.tool_calls = tool_calls_info
            /\ AsRequests(returned'.tool_calls) = Requested
            /\ Rounds = 0 => returned'.tool_calls = <<>>
       /\ pc = "returned" =>
            /\ pc' = "idle"
            /\ UNCHANGED store_vars]_vars

\* the follow-up send of the second round failed after two tools had run
C10_Witness ==
    /\ pc = "returned"
    /\ return_site = "follow-up send failed"
    /\ Rounds = 2
    /\ Len(returned.tool_calls) = 2
    /\ Len(invocations) = 2

\* the texts of the parts, joined from the last part backwards
RECURSIVE Concatenation(_)
Concatenation(parts) ==
    IF parts = <<>> THEN ""
    ELSE Concatenation(SubSeq(parts, 1, Len(parts) - 1)) \o Last(parts).text

(***************************************************************************)
(* C18  Of a turn that returns after a response without function_call: the *)
(* stock sentence is the response text when that response has no text and  *)
(* the turn made at least one tool call, and only then does it stand in    *)
(* for the model's text; a response with text gives the concatenation of   *)
(* its text parts in order; no text and no tool call gives the empty text. *)
(***************************************************************************)
C18_FallbackOnlyAfterToolCall ==
    (pc = "returned" /\ return_site = "final text") =>
       LET text == Concatenation(response)
       IN /\ (text = "" /\ returned.tool_calls # <<>>) => returned.response = FALLBACK
          /\ text # "" => returned.response = text
          /\ (text = "" /\ returned.tool_calls = <<>>) => returned.response = ""

\* the stock sentence was returned after a tool call and a last response
\* whose only part has empty text
C18_Witness ==
    /\ pc = "returned"
    /\ return_site = "final text"
    /\ returned.response = FALLBACK
    /\ returned.tool_calls # <<>>
    /\ Len(response) = 1

\* the audit-trail entries of the rounds before round k
RECURSIVE Before(_)
Before(k) == IF k <= 1 THEN 0 ELSE Before(k - 1) + Len(requests[k - 1])

(***************************************************************************)
(* C19  The parts of the follow-up of a round answer the round's requests  *)
(* one to one and in order: part i carries the name of request i of that   *)
(* round and the result the audit trail holds for that request; no part    *)
(* carries a result of an earlier round.                                   *)
(***************************************************************************)
C19_ReplyPartsMatchRequests ==
    \A k \in 1..Rounds :
       LET sent == submissions[k + 1].parts
       IN /\ Len(sent) = Len(requests[k])
          /\ \A i \in DOMAIN sent :
                /\ sent[i].name = requests[k][i].name
                /\ sent[i].name = tool_calls_info[Before(k) + i].tool
                /\ sent[i].response = tool_calls_info[Before(k) + i].result

\* the follow-up of a second round carried one part, whose result differs
\* from the one the first round's follow-up carried
C19_Witness ==
    /\ pc = "awaiting_model"
    /\ Rounds = 2
    /\ Len(submissions[3].parts) = 1
    /\ submissions[3].parts[1].response # submissions[2].parts[1].response

\* run_todo_agent has returned to send_chat_message
AgentReturned == chat_pc = "awaiting_agent" /\ pc = "returned"

(***************************************************************************)
(* C11  The chat endpoint does not fail because of a tool: a turn in which *)
(* every submission to the model succeeded ends with status 200 and a      *)
(* ChatResponse carrying the conversation, the response text and the audit *)
(* trail, whatever the model requested (unregistered names, tools that     *)
(* raise, tools returning normally, list_tasks returning a list).          *)
(***************************************************************************)
C11_ToolNeverFailsEndpoint ==
    [][(AgentReturned /\ return_site = "final text") =>
         /\ http'.endpoint = "send_chat_message"
         /\ http'.status = 200
         /\ http'.body.conversation_id = conversation
         /\ http'.body.response = returned.response
         /\ http'.body.tool_calls = returned.tool_calls]_vars

Owns(u, id) == \E c \in conversations : c.id = id /\ c.user_id = u

\* this step serves a request of u addressed to conversation id: an
\* endpoint answers it, or send_chat_message goes on with it
Serves(u, id) ==
    \/ /\ http' # http
       /\ http'.endpoint \in {"send_chat_message", "get_conversation_details",
                              "delete_conversation"}
       /\ http'.user = u
       /\ http'.conversation_id = id
    \/ /\ chat_pc = "idle"
       /\ chat_pc' = "have_conversation"
       /\ request'.user = u
       /\ request'.conversation_id = id

(***************************************************************************)
(* C13  A request addressed to a conversation id by a user who does not    *)
(* own a conversation of that id (continuing a chat, reading the messages, *)
(* deleting) is answered 404 "Conversation not found", whether another     *)
(* user owns the id or nobody does; the answer returns nothing of the      *)
(* conversation, and no conversation and no message changes.               *)
(***************************************************************************)
C13_NotFoundForNonOwner ==
    [][\A u \in Users, id \in ConversationIds :
          (~Owns(u, id) /\ Serves(u, id)) =>
             /\ http'.status = 404
             /\ http'.body = NotFound
             /\ http' = Answer(http'.endpoint, u, id, 404, NotFound)
             /\ chat_pc' = "idle"
             /\ UNCHANGED table_vars]_vars

\* 404 was the answer to a delete of a conversation that holds messages and
\* belongs to another user
C13_Witness ==
    /\ http.endpoint = "delete_conversation"
    /\ http.status = 404
    /\ \E c \in conversations :
          /\ c.id = http.conversation_id
          /\ c.user_id # http.user
          /\ \E m \in messages : m.conversation_id = c.id

(***************************************************************************)
(* C14  Every message in the table refers to a conversation in the table   *)
(* whose user_id is the message's user_id, whatever chat turns and         *)
(* deletions the users have issued.                                        *)
(***************************************************************************)
C14_MessageRefersToOwnConversation ==
    \A m \in messages :
       \E c \in conversations : c.id = m.conversation_id /\ c.user_id = m.user_id

\* a conversation was deleted, and messages of both users have been written
\* of which some remain
C14_Witness ==
    /\ http.endpoint = "delete_conversation"
    /\ http.status = 200
    /\ messages # {}
    /\ \E m \in messages : m.user_id # http.user

\* the ids of the conversations this step removes
Removed == {c.id : c \in conversations} \ {c.id : c \in conversations'}

(***************************************************************************)
(* C15  Messages are append-only.  No step changes a message of the table; *)
(* a message leaves the table only in the step in which delete_conversation*)
(* answers its owner's request on its conversation and removes that        *)
(* conversation; that step removes every message of the conversation and   *)
(* no message of another one.                                              *)
(***************************************************************************)
C15_MessagesAppendOnly ==
    [][/\ \A m \in messages, n \in messages' : n.id = m.id => n = m
       /\ \A m \in messages \ messages' :
             /\ m.conversation_id \in Removed
             /\ http'.endpoint = "delete_conversation"
             /\ http'.status = 200
             /\ http'.conversation_id = m.conversation_id
             /\ http'.user = m.user_id
       /\ \A m \in messages :
             m.conversation_id \in Removed => m \notin messages']_vars

\* a conversation with its two messages was deleted and the messages of
\* another conversation of the same user are still there
C15_Witness ==
    /\ http.endpoint = "delete_conversation"
    /\ http.status = 200
    /\ Cardinality(messages) = 2
    /\ next_message_id = 5
    /\ \A m \in messages : m.user_id = http.user

\* updated_at of the conversation with this id, in a table that holds it
UpdatedAt(table, id) == (CHOOSE c \in table : c.id = id).updated_at

(***************************************************************************)
(* C16  Whenever a step appends a message to a conversation (the user      *)
(* message or the assistant message of a chat turn), the same step sets    *)
(* the conversation's updated_at to a later time.                          *)
(***************************************************************************)
C16_AppendBumpsUpdatedAt ==
    [][\A m \in messages' \ messages :
          UpdatedAt(conversations', m.conversation_id)
            > UpdatedAt(conversations, m.conversation_id)]_vars

(***************************************************************************)
(* C17  list_conversations answers user U with exactly the conversations   *)
(* U owns, each once, in the order of updated_at, the most recently        *)
(* updated first; and the step that completes a chat turn of U on          *)
(* conversation c leaves c with the latest updated_at of U's               *)
(* conversations, so that c is the first of U's list.                      *)
(***************************************************************************)
C17_ListMostRecentlyUpdatedFirst ==
    [][/\ http'.endpoint = "list_conversations" =>
            LET listed == http'.body.conversations
                mine == {c \in conversations' : c.user_id = http'.user}
            IN /\ http'.status = 200
               /\ http'.body.total = Len(listed)
               /\ Len(listed) = Cardinality(mine)
               /\ \A c \in mine :
                     \E i \in DOMAIN listed :
                        listed[i] = [id |-> c.id, title |-> c.title,
                                     created_at |-> c.created_at,
                                     updated_at |-> c.updated_at]
               /\ \A i, j \in DOMAIN listed :
                     i < j => listed[i].updated_at >= listed[j].updated_at
       /\ AgentReturned =>
            \A c \in conversations' :
               (c.user_id = request.user /\ c.id # conversation) =>
                  c.updated_at < UpdatedAt(conversations', conversation)]_vars

\* the list of a user with two conversations begins with the older one,
\* on which a turn was completed after the newer one was created
C17_Witness ==
    /\ http.endpoint = "list_conversations"
    /\ Len(http.body.conversations) = 2
    /\ http.body.conversations[1].id < http.body.conversations[2].id

\* the i-th of a set of messages in the order they were stored
Stored(S, i) == CHOOSE m \in S : Cardinality({x \in S : x.id < m.id}) = i - 1

(***************************************************************************)
(* C20  The history run_todo_agent is called with for a turn on            *)
(* conversation c is the messages of c that were in the table before the   *)
(* turn's user message, in the order they were stored, each as its content *)
(* under the role user for a user message and model for an assistant       *)
(* message; the turn's own user message is not in the history, it is what  *)
(* the turn submits first, once.                                           *)
(***************************************************************************)
C20_HistoryIsPriorMessages ==
    [][chat_pc = "have_conversation" =>
         LET prior == {m \in messages : m.conversation_id = conversation}
         IN /\ pc' = "awaiting_model"
            /\ user_id' = request.user
            /\ Len(history') = Cardinality(prior)
            /\ \A i \in DOMAIN history' :
                  /\ history'[i].parts = <<Stored(prior, i).content>>
                  /\ Stored(prior, i).role = "user" => history'[i].role = "user"
                  /\ Stored(prior, i).role = "assistant" => history'[i].role = "model"
            /\ submissions' = <<[message |-> request.message, parts |-> <<>>]>>
            /\ \E m \in messages' \ messages :
                  /\ m.role = "user"
                  /\ m.content = request.message
                  /\ m.conversation_id = conversation]_vars

\* a second turn on a conversation was given its two messages, while the
\* table holds the messages of another conversation too
C20_Witness ==
    /\ chat_pc = "awaiting_agent"
    /\ Len(history) = 2
    /\ history[1].role = "user"
    /\ history[2].role = "model"
    /\ Cardinality(messages) = 5

EffectOf(entry) ==
    LET r == entry.result
    IN (r.type = "dict" /\ "status" \in DOMAIN r.value) =>
          CASE r.value.status = "created" ->
                 \E t \in todos : t.id = r.value.task_id /\ ~t.completed
            [] r.value.status = "completed" ->
                 \E t \in todos : t.id = r.value.task_id /\ t.completed
            [] r.value.status = "deleted" ->
                 \A t \in todos : t.id # r.value.task_id
            [] r.value.status = "updated" ->
                 \E t \in todos : t.id = r.value.task_id /\ t.title = r.value.title
            [] OTHER -> TRUE

C23_NoRollbackOnSendFailure ==
    /\ [](pc = "returned" /\ return_site = "follow-up send failed"
            => /\ returned.tool_calls # <<>>
               /\ EffectOf(Last(returned.tool_calls)))
    /\ [][(pc = "awaiting_model" /\ pc' = "returned") => UNCHANGED store_vars]_vars

\* the follow-up send failed after add_task inserted a row, and the row is
\* in the table
C23_Witness ==
    /\ pc = "returned"
    /\ return_site = "follow-up send failed"
    /\ \E i \in DOMAIN returned.tool_calls :
          /\ returned.tool_calls[i].tool = "add_task"
          /\ returned.tool_calls[i].result = Dict([task_id |-> 1, status |-> "created",
                                                   title |-> "t1"])
    /\ \E t \in todos : t.id = 1 /\ t.title = "t1" /\ t.user_id = user_id

(***************************************************************************)
(* C24  A turn in which the model asks for one add_task with a title T and *)
(* then answers with text returns one tool call whose result has status    *)
(* "created", and the table holds exactly one row with the id of that      *)
(* result: it belongs to the turn's user, has title T and is not           *)
(* completed.  The step that ran the call added that one row and touched   *)
(* no other, and no other step of the turn changed the table.              *)
(***************************************************************************)
IsAddWithTitle(call) == call.name = "add_task" /\ "title" \in DOMAIN call.args

Advertised == {TOOLS_METADATA[i].name : i \in DOMAIN TOOLS_METADATA}

C27_RegistryWellFormed ==
    /\ \A i, j \in DOMAIN TOOLS_METADATA :
          TOOLS_METADATA[i].name = TOOLS_METADATA[j].name => i = j
    /\ \A i \in DOMAIN TOOLS_METADATA :
          TOOLS_METADATA[i].required \subseteq TOOLS_METADATA[i].properties
    /\ Advertised = TOOL_FUNCTIONS
    /\ \A i \in DOMAIN tool_calls_info :
          (tool_calls_info[i].result = NotRegistered(tool_calls_info[i].tool))
            <=> tool_calls_info[i].tool \notin Advertised

\* one response asked for an advertised tool, which ran, and for a name
\* that is not advertised
C27_Witness ==
    /\ Len(tool_calls_info) = 2
    /\ tool_calls_info[1].tool = "update_task"
    /\ "status" \in DOMAIN tool_calls_info[1].result.value
    /\ tool_calls_info[2].tool = "remind_me"
    /\ tool_calls_info[2].result = NotRegistered("remind_me")

(***************************************************************************)
(* C28  A chat request that is refused before the agent is called writes   *)
(* nothing.  The answer 401 is for a caller without a user row, the answer *)
(* 404 for a conversation_id that is not a conversation of the caller; in  *)
(* the step that gives either answer the tables conversations and messages *)
(* (updated_at included), the task table and the agent are as before, and  *)
(* no turn has begun.  A turn begins only for a caller with a user row     *)
(* and, when an id is given, for a conversation of that caller.            *)
(***************************************************************************)
Refused ==
    /\ http' # http
    /\ http'.endpoint = "send_chat_message"
    /\ http'.status \in {401, 404}

C28_RefusedRequestWritesNothing ==
    /\ [][Refused =>
            /\ UNCHANGED <<table_vars, agent_vars>>
            /\ chat_pc' = "idle"
            /\ http'.status = 401 => ~user_exists(http'.user)
            /\ http'.status = 404 =>
                  /\ user_exists(http'.user)
                  /\ http'.conversation_id # 0
                  /\ ~Owns(http'.user, http'.conversation_id)]_vars
    /\ [][(chat_pc = "idle" /\ chat_pc' = "have_conversation") =>
            /\ user_exists(request'.user)
            /\ request'.conversation_id # 0 =>
                  Owns(request'.user, request'.conversation_id)]_vars

\* a caller without a user row asked for a new conversation and got 401,
\* with conversations and messages of others in the tables
C28_Witness ==
    /\ http.endpoint = "send_chat_message"
    /\ http.status = 401
    /\ http.conversation_id = 0
    /\ ~user_exists(http.user)
    /\ conversations # {}
    /\ messages # {}
    /\ next_conversation_id <= MaxConversations

(***************************************************************************)
(* C29  With the turns of a conversation served one at a time, the         *)
(* messages of every conversation, in the order they were stored, are      *)
(* user, assistant, user, assistant, ...; while a turn is under way its    *)
(* conversation ends with the turn's user message, and whenever no turn is *)
(* under way, whether the last one ended with a reply of the model, with   *)
(* an error text of a failed send or with the status 500, every            *)
(* conversation ends with an assistant message.                            *)
(***************************************************************************)
Transcript(id) == {m \in messages : m.conversation_id = id}

TaskServed ==
    /\ pc = "idle"
    /\ pc' = "idle"
    /\ http' # http
    /\ http'.endpoint \in {"get_task", "update_task", "delete_task", "toggle_complete"}

\* this step is the answer to GET /api/tasks
ListServed ==
    /\ pc = "idle"
    /\ pc' = "idle"
    /\ http' # http
    /\ http'.endpoint = "list_tasks"

(***************************************************************************)
(* C25  In the task API, get, update, delete and toggle-complete of a task *)
(* of another user are answered 403 and of an id without a task 404, and   *)
(* either answer leaves the whole task table as it was; the list answered  *)
(* to a caller holds only tasks of that caller, and its total counts them. *)
(***************************************************************************)
C25_OthersTaskForbidden ==
    /\ [][TaskServed =>
            LET u == http'.user
                rows == {t \in todos : t.id = http'.task_id}
            IN /\ rows = {} => http'.status = 404
               /\ (rows # {} /\ \A t \in rows : t.user_id # u) => http'.status = 403
               /\ http'.status = 404 => rows = {}
               /\ http'.status = 403 => (rows # {} /\ \A t \in rows : t.user_id # u)
               /\ http'.status \in {403, 404} => UNCHANGED store_vars]_vars
    /\ [][ListServed =>
            LET mine == {t \in todos : t.user_id = http'.user}
                tasks == http'.body.tasks
            IN /\ \A i \in DOMAIN tasks : tasks[i] \in mine
               /\ \A i, j \in DOMAIN tasks : tasks[i] = tasks[j] => i = j
               /\ http'.body.total = Cardinality(mine)
               /\ Len(tasks) >= Cardinality(mine) - 1
               /\ UNCHANGED store_vars]_vars

\* 403 was the answer to a toggle of another user's task, in a table that
\* also holds a task of the caller
C25_Witness ==
    /\ http.endpoint = "toggle_complete"
    /\ http.status = 403
    /\ \E t \in todos : t.id = http.task_id /\ t.user_id # http.user
    /\ \E t \in todos : t.user_id = http.user

(***************************************************************************)
(* C26  PATCH /api/tasks/{id}/complete by the owner of task id is answered *)
(* 200, gives completed the opposite value and changes nothing else in the *)
(* table; when it comes right after such a request for the same task, it   *)
(* gives completed the value it had before the first of the two.           *)
(***************************************************************************)
C26_ToggleFlipsCompleted ==
    [][(TaskServed /\ http'.endpoint = "toggle_complete") =>
         \A t \in todos :
            (t.id = http'.task_id /\ t.user_id = http'.user) =>
               /\ http'.status = 200
               /\ http'.body = [t EXCEPT !.completed = ~t.completed]
               /\ todos' = (todos \ {t}) \cup {http'.body}
               /\ next_id' = next_id
               /\ (/\ http.endpoint = "toggle_complete"
                   /\ http.status = 200
                   /\ http.body = t)
                  => http'.body.completed = ~http.body.completed]_vars

\* the owner's toggle was answered with completed = FALSE for a task that
\* was completed, beside a completed task of another user
C26_Witness ==
    /\ http.endpoint = "toggle_complete"
    /\ http.status = 200
    /\ ~http.body.completed
    /\ http.body \in todos
    /\ \E t \in todos : t.user_id # http.user /\ t.completed
    /\ Cardinality(todos) = MaxStoredTasks

(***************************************************************************)
(* C30  complete_task, delete_task and update_task called for a task_id    *)
(* that is not a task of the calling user, because there is no such task   *)
(* or because it is another user's, return an error result and leave the   *)
(* task table as it was.  complete_task on a task of the caller sets       *)
(* completed to TRUE and changes nothing else, and a second call leaves    *)
(* the table as the first left it.                                         *)
(***************************************************************************)
ByTaskId == {"complete_task", "delete_task", "update_task"}

C30_ToolErrorsLeaveStore ==
    /\ [][(AtCall /\ CallHere.name \in ByTaskId) =>
            LET id == CallHere.args.task_id
                mine == {t \in todos : t.id = id /\ t.user_id = user_id}
                result == Last(tool_calls_info').result
            IN /\ mine = {} =>
                     /\ result.type = "dict"
                     /\ DOMAIN result.value = {"error"}
                     /\ UNCHANGED store_vars
               /\ (mine # {} /\ CallHere.name = "complete_task") =>
                     /\ result.value.status = "completed"
                     /\ \E t \in mine :
                           todos' = (todos \ {t}) \cup {[t EXCEPT !.completed = TRUE]}
                     /\ (\A t \in mine : t.completed) => UNCHANGED store_vars]_vars
    /\ [](\A u \in Users, id \in StoredTaskIds :
             LET once == complete_task(todos, next_id, u, id)
                 twice == complete_task(once.todos, once.next_id, u, id)
             IN /\ twice.todos = once.todos
                /\ twice.result = once.result)

\* complete_task was called for a task of another user and returned an
\* error, in a table that also holds a task of the caller
C30_Witness ==
    /\ pc = "inspecting"
    /\ Len(tool_calls_info) = 1
    /\ tool_calls_info[1].tool = "complete_task"
    /\ "error" \in DOMAIN tool_calls_info[1].result.value
    /\ \E t \in todos : t.id = tool_calls_info[1].arguments.task_id /\ t.user_id # user_id
    /\ \E t \in todos : t.user_id = user_id /\ ~t.completed

(***************************************************************************)
(* C22  Nothing keeps a second turn off a conversation that has a turn     *)
(* under way: while one process is between the commit of its user message  *)
(* and the commit of its reply, a request of the same user for the same    *)
(* conversation is taken up by another process; and when both turns have   *)
(* saved their user message and neither its reply, the history of the turn *)
(* that saved second holds the user message of the other turn, and no      *)
(* message after that one is a reply of the other turn.                    *)
(***************************************************************************)
BothUnderWay ==
    /\ chat_pc = "awaiting_agent"
    /\ other.chat_pc = "awaiting_agent"
    /\ conversation = other.conversation

\* the user message of the turn under way that said `content`
UserMessageOf(T, content) ==
    CHOOSE m \in T :
       /\ m.role = "user"
       /\ m.content = content
       /\ \A x \in T : (x.role = "user" /\ x.content = content) => x.id <= m.id

\* h is what was stored before `later` and holds `earlier`, which has no
\* reply among `replies`
HoldsUnanswered(h, T, later, earlier, replies) ==
    /\ Len(h) = Cardinality({m \in T : m.id < later.id})
    /\ h[Cardinality({m \in T : m.id <= earlier.id})] =
         [role |-> "user", parts |-> <<earlier.content>>]
    /\ \A m \in T : (m.id > earlier.id /\ m.role = "assistant") => m.content \notin replies

\* the texts the first process's model answers with
FirstTexts == {FinalText(parts) : parts \in FinalResponses}

C22_TurnsNotExcluded ==
    /\ [](\A message \in OtherMessages :
            (/\ chat_pc = "awaiting_agent"
             /\ other.chat_pc = "idle"
             /\ next_message_id + 1 <= MaxMessages)
            => ENABLED other_send_chat_message(request.user, message, conversation))
    /\ [](BothUnderWay =>
            LET T == Transcript(conversation)
                first == UserMessageOf(T, request.message)
                second == UserMessageOf(T, other.request.message)
            IN IF first.id < second.id
                 THEN HoldsUnanswered(other.gemini_history, T, second, first, FirstTexts)
                 ELSE HoldsUnanswered(gemini_history, T, first, second, OtherTexts))

\* both turns are over and the conversation reads user, user, assistant,
\* assistant: the two requests, then the two replies
C22_Witness ==
    /\ chat_pc = "idle"
    /\ other.chat_pc = "idle"
    /\ \E id \in ConversationIds :
          LET T == Transcript(id)
          IN /\ Cardinality(T) = 4
             /\ Stored(T, 1).role = "user" /\ Stored(T, 1).content = "hello"
             /\ Stored(T, 2).role = "user" /\ Stored(T, 2).content = "hello again"
             /\ Stored(T, 3).role = "assistant" /\ Stored(T, 3).content = "a"
             /\ Stored(T, 4).role = "assistant" /\ Stored(T, 4).content = "b"
====
